---------------------------- MODULE Spec2Model ----------------------------
(***************************************************************************)
(* Model of agent.py: the two tool functions (append_to_state, write_file) *)
(* and the agent pipeline                                                  *)
(*   root_agent -> historical_court_system =                               *)
(*       Sequential[ trial_loop = Loop[ investigation_team =               *)
(*                       Parallel[admirer, critic_researcher], judge ],    *)
(*                   verdict_writer ].                                     *)
(* Agent decisions (which tool to call, with which arguments) are made by  *)
(* a language model and are drawn nondeterministically from small sets.    *)
(***************************************************************************)
EXTENDS Integers, Sequences, FiniteSets, TLC

VARIABLES
    state,          \* tool_context.state: session key -> value
    log,            \* number of logging.info lines emitted, per kind
    ret,            \* the last completed tool call: arguments and outcome
    phase,          \* which agent of the pipeline is running
    pcLoop,         \* position of trial_loop in its sub_agents list
    times_looped,   \* completed iterations of trial_loop
    should_exit,    \* the judge's exit_loop signal (escalate)
    pc,             \* position of each research agent of investigation_team
    frame,          \* local variables of each research agent's append_to_state call
    pcJudge,        \* position of the judge
    pcWriter,       \* position of the verdict_writer
    dirs,           \* filesystem: the directories that exist
    files,          \* filesystem: regular files and their content
    nCalls,         \* append_to_state calls begun in this session
    nWrites,        \* write_file calls made in this session
    teamStarts,     \* runs of investigation_team started
    judgeStarts,    \* runs of judge started
    writerRuns      \* runs of verdict_writer started

vars == <<state, log, ret, phase, pcLoop, times_looped, should_exit, pc, frame,
          pcJudge, pcWriter, dirs, files, nCalls, nWrites, teamStarts,
          judgeStarts, writerRuns>>

pipelineVars == <<phase, pcLoop, times_looped, should_exit, pc, frame, pcJudge,
                  pcWriter, teamStarts, judgeStarts, writerRuns>>

fsVars == <<dirs, files, nWrites>>

-----------------------------------------------------------------------------
(* Bounds of the model *)

\* append_to_state calls a session may begin
MaxCalls == 3

\* write_file calls a session may make
MaxWrites == 2

-----------------------------------------------------------------------------
(* Session state values *)

Fields == {"PROMPT", "pos_data", "neg_data", "CRITICAL_FEEDBACK"}

Responses == {"r1", "r2"}

Researchers == {"admirer", "critic_researcher"}

\* the fields the research agents are seen to append to
ResearcherFields == {"pos_data", "neg_data"}

\* the findings each research agent reports
Findings == [admirer |-> {"r1"}, critic_researcher |-> {"r2"}]

Unset == [kind |-> "unset"]

Str(s) == [kind |-> "str", val |-> s]

List(items) == [kind |-> "list", items |-> items]

TypeError == [kind |-> "TypeError"]

\* state.get(field, default)
get(st, field, default) == IF st[field] = Unset THEN default ELSE st[field]

\* state[field] = value
setitem(st, field, value) == [st EXCEPT ![field] = value]

\* existing_state + [response]: list concatenation; str + list raises TypeError
plus_list_mutant_prepend(existing, response) ==
    IF existing.kind = "list" THEN List(<<response>> \o existing.items) ELSE TypeError

plus_list(existing, response) ==
    IF existing.kind = "list" THEN List(Append(existing.items, response)) ELSE TypeError

\* line 33: existing_state = tool_context.state.get(field, [])
append_read(st, field) == get(st, field, List(<<>>))

\* lines 34-36 with the value a mutant would store: the bare response
append_write_mutant_store_response(st, lg, field, existing, response) ==
    [state  |-> setitem(st, field, Str(response)),
     log    |-> [lg EXCEPT !.added[field] = @ + 1],
     status |-> "success"]

\* lines 34-36: store existing_state + [response], log, return success
append_write(st, lg, field, existing, response) ==
    LET v == plus_list(existing, response) IN
    IF v = TypeError
    THEN [state |-> st, log |-> lg, status |-> "error"]
    ELSE [state  |-> setitem(st, field, v),
          log    |-> [lg EXCEPT !.added[field] = @ + 1],
          status |-> "success"]

\* the whole call, when nothing runs between its read and its write
append_to_state(st, lg, field, response) ==
    append_write(st, lg, field, append_read(st, field), response)

AppendRet(field, response, status) ==
    [tool |-> "append_to_state", field |-> field, response |-> response,
     status |-> status]

NoFrame == [field |-> "", response |-> "", existing_state |-> Unset]

-----------------------------------------------------------------------------
(* Composition of the agents *)

max_iterations_off_by_one == 3 + 1

max_iterations == 3

\* LoopAgent: a sub-agent's escalate event ends the loop
loop_returns_on_mutant_ignore(signal) == FALSE

loop_returns_on(signal) == signal

\* ParallelAgent: the run is complete when every sub-agent has completed
parallel_joined_mutant_first(p) == \E a \in Researchers : p[a] = "done"

parallel_joined(p) == \A a \in Researchers : p[a] = "done"

\* SequentialAgent: the next sub-agent runs whatever way the previous one ended
sequential_runs_next_mutant_escalate(signal) == ~signal

sequential_runs_next(signal) == TRUE

\* derived: the loop's state in the sense of the bounded-loop state machine
LoopState ==
    CASE pcLoop = "not_started" -> "not_started"
      [] pcLoop \in {"investigation_team", "judge"} -> "iterating"
      [] pcLoop = "returned" /\ should_exit -> "terminated_by_signal"
      [] OTHER -> "terminated_by_cap"

-----------------------------------------------------------------------------
(* Paths: a path string is the sequence of its characters *)

Sep == "/"

Max(S) == CHOOSE x \in S : \A y \in S : y <= x

startswith_sep(p) == Len(p) > 0 /\ p[1] = Sep

endswith_sep(p) == Len(p) > 0 /\ p[Len(p)] = Sep

\* p.rfind('/') + 1
rfind_sep(p) == Max({0} \cup {i \in 1..Len(p) : p[i] = Sep})

\* head.rstrip('/')
rstrip_sep(p) == SubSeq(p, 1, Max({0} \cup {i \in 1..Len(p) : p[i] # Sep}))

all_seps(p) == \A i \in 1..Len(p) : p[i] = Sep

\* os.path.join(a, b) mutated: the separator is always inserted
join_mutant_always_sep(a, b) ==
    IF startswith_sep(b) THEN b ELSE a \o <<Sep>> \o b

\* os.path.join(a, b)
join(a, b) ==
    IF startswith_sep(b) THEN b
    ELSE IF a = <<>> \/ endswith_sep(a) THEN a \o b
    ELSE a \o <<Sep>> \o b

\* os.path.split(p): <<head, tail>>
split(p) ==
    LET i    == rfind_sep(p)
        head == SubSeq(p, 1, i)
        tail == SubSeq(p, i + 1, Len(p))
    IN  <<IF head # <<>> /\ ~all_seps(head) THEN rstrip_sep(head) ELSE head, tail>>

\* os.path.dirname(p)
dirname(p) == split(p)[1]

\* the components of a path string, empty ones dropped
RECURSIVE components(_)
components(p) ==
    IF p = <<>> THEN <<>>
    ELSE IF p[1] = Sep THEN components(Tail(p))
    ELSE LET n == IF \E i \in 1..Len(p) : p[i] = Sep
                  THEN (CHOOSE i \in 1..Len(p) :
                           p[i] = Sep /\ \A j \in 1..(i - 1) : p[j] # Sep) - 1
                  ELSE Len(p)
         IN  <<SubSeq(p, 1, n)>> \o components(SubSeq(p, n + 1, Len(p)))

Root == << <<"/">> >>

Cwd == << <<".">> >>

\* the node a path string names: the root or the working directory, then the components
resolve(p) == (IF startswith_sep(p) THEN Root ELSE Cwd) \o components(p)

parent(r) == SubSeq(r, 1, Len(r) - 1)

IsPrefixOf(r, q) == Len(r) <= Len(q) /\ SubSeq(q, 1, Len(r)) = r

\* os.path.isdir(p)
isdir(d, p) == p # <<>> /\ resolve(p) \in d

\* os.path.exists(p)
exists(d, f, p) ==
    /\ p # <<>>
    /\ \/ resolve(p) \in d
       \/ resolve(p) \in DOMAIN f /\ ~endswith_sep(p)

\* os.mkdir(name): [err, dirs]
mkdir(d, f, name) ==
    LET r == resolve(name) IN
    IF name = <<>> THEN [err |-> "FileNotFoundError", dirs |-> d]
    ELSE IF r \in d \/ r \in DOMAIN f THEN [err |-> "FileExistsError", dirs |-> d]
    ELSE IF parent(r) \in DOMAIN f THEN [err |-> "NotADirectoryError", dirs |-> d]
    ELSE IF parent(r) \notin d THEN [err |-> "FileNotFoundError", dirs |-> d]
    ELSE [err |-> "", dirs |-> d \cup {r}]

\* os.makedirs(name, exist_ok=True): [err, dirs]
RECURSIVE makedirs(_, _, _)
makedirs(d, f, name) ==
    LET s1  == split(name)
        s   == IF s1[2] = <<>> THEN split(s1[1]) ELSE s1
        up  == s[1] # <<>> /\ s[2] # <<>> /\ ~exists(d, f, s[1])
        rec == IF up THEN makedirs(d, f, s[1]) ELSE [err |-> "", dirs |-> d]
    IN  IF rec.err \notin {"", "FileExistsError"} THEN rec
        ELSE LET m == mkdir(rec.dirs, f, name) IN
             IF m.err = "" \/ isdir(m.dirs, name) THEN [err |-> "", dirs |-> m.dirs]
             ELSE m

put(f, r, c) == [x \in DOMAIN f \cup {r} |-> IF x = r THEN c ELSE f[x]]

\* the content of the file just opened, had it been opened with mode "a"
open_mutant_append(f, r) == IF r \in DOMAIN f THEN f[r] ELSE <<>>

\* open(target_path, "w"): the file is created or truncated
open_w(f, r) == <<>>

\* the outcome of a failed call, had the body been wrapped in try/except
raise_mutant_swallowed(d, f, target) ==
    [dirs |-> d, files |-> f, status |-> "success", logged |-> TRUE, target |-> target]

\* an exception leaves write_file: no log line, no return value
raise(d, f, target) ==
    [dirs |-> d, files |-> f, status |-> "error", logged |-> FALSE, target |-> target]

Faults == {"none", "makedirs", "open", "write"}

\* write_file(tool_context, directory, filename, content), with the operating
\* system failing the named step (permission denied, disk full) when fault says so
write_file(d, f, directory, filename, content, fault) ==
    LET target_path == join(directory, filename)
        mk == makedirs(d, f, dirname(target_path))
        r  == resolve(target_path)
    IN  IF fault = "makedirs" THEN raise(d, f, target_path)
        ELSE IF mk.err # "" THEN raise(mk.dirs, f, target_path)
        ELSE IF fault = "open" THEN raise(mk.dirs, f, target_path)
        ELSE IF target_path = <<>> \/ r \in mk.dirs \/ endswith_sep(target_path)
                \/ parent(r) \notin mk.dirs
             THEN raise(mk.dirs, f, target_path)
        ELSE IF fault = "write"
             THEN raise(mk.dirs, put(f, r, open_w(f, r)), target_path)
        ELSE [dirs |-> mk.dirs, files |-> put(f, r, open_w(f, r) \o content),
              status |-> "success", logged |-> TRUE, target |-> target_path]

WriteRet(directory, filename, content, fault, out) ==
    [tool |-> "write_file", directory |-> directory, filename |-> filename,
     content |-> content, fault |-> fault, status |-> out.status,
     target |-> out.target]

\* arguments the tool is exercised with
DirArgs == {<<>>, <<"v">>, <<"v", "/", "s">>}

FileArgs == {<<"r">>, <<"s">>, <<"s", "/", "r">>, <<"/", "r">>}

Contents == {<<"x">>, <<"y">>}

\* arguments the verdict_writer is instructed to use: directory 'verdicts', a name ending in '.txt'
InstructedDirs == {<<"v">>}

InstructedFiles == {<<"r">>}

\* the report the verdict_writer saves
Reports == {<<"x">>}

-----------------------------------------------------------------------------
(* The session at its start: nothing stored, the greeter is talking to the user *)

Init ==
    /\ state = [f \in Fields |-> Unset]
    /\ log = [added |-> [f \in Fields |-> 0], written |-> 0]
    /\ ret = [tool |-> "none"]
    /\ phase = "judge_greeter"
    /\ pcLoop = "not_started"
    /\ times_looped = 0
    /\ should_exit = FALSE
    /\ pc = [a \in Researchers |-> "idle"]
    /\ frame = [a \in Researchers |-> NoFrame]
    /\ pcJudge = "idle"
    /\ pcWriter = "idle"
    /\ dirs = {Root, Cwd}
    /\ files = [x \in {} |-> <<>>]
    /\ nCalls = 0
    /\ nWrites = 0
    /\ teamStarts = 0
    /\ judgeStarts = 0
    /\ writerRuns = 0

\* an agent that runs alone calls append_to_state(field, response)
CallAppend(field, response) ==
    LET out == append_to_state(state, log, field, response) IN
    /\ nCalls < MaxCalls
    /\ nCalls' = nCalls + 1
    /\ state' = out.state
    /\ log' = out.log
    /\ ret' = AppendRet(field, response, out.status)

\* root_agent stores the user's topic under PROMPT
GreeterStore ==
    /\ phase = "judge_greeter"
    /\ \E response \in Responses : CallAppend("PROMPT", response)
    /\ UNCHANGED <<pipelineVars, fsVars>>

\* investigation_team starts: both research agents start running
StartIteration ==
    /\ pcLoop' = "investigation_team"
    /\ pc' = [a \in Researchers |-> "running"]
    /\ frame' = [a \in Researchers |-> NoFrame]
    /\ pcJudge' = "idle"
    /\ teamStarts' = teamStarts + 1

\* historical_court_system moves on to verdict_writer once trial_loop has returned
LoopReturns ==
    /\ pcLoop' = "returned"
    /\ pc' = pc
    /\ frame' = frame
    /\ pcJudge' = "done"
    /\ teamStarts' = teamStarts
    /\ IF sequential_runs_next(should_exit)
       THEN phase' = "verdict_writer" /\ pcWriter' = "running"
            /\ writerRuns' = writerRuns + 1
       ELSE phase' = "done" /\ pcWriter' = pcWriter /\ writerRuns' = writerRuns

\* root_agent transfers to historical_court_system: trial_loop starts its first iteration
Transfer ==
    /\ phase = "judge_greeter"
    /\ phase' = "trial_loop"
    /\ IF 0 < max_iterations
       THEN StartIteration /\ UNCHANGED <<pcWriter, writerRuns>>
       ELSE LoopReturns
    /\ UNCHANGED <<state, log, ret, times_looped, should_exit, nCalls, judgeStarts,
                   fsVars>>

\* a research agent enters append_to_state and reads the field (line 33)
AppendRead(a) ==
    /\ pcLoop = "investigation_team"
    /\ pc[a] = "running"
    /\ nCalls < MaxCalls
    /\ \E field \in ResearcherFields, response \in Findings[a] :
          frame' = [frame EXCEPT ![a] =
                       [field |-> field, response |-> response,
                        existing_state |-> append_read(state, field)]]
    /\ pc' = [pc EXCEPT ![a] = "writing"]
    /\ nCalls' = nCalls + 1
    /\ UNCHANGED <<state, log, ret, phase, pcLoop, times_looped, should_exit,
                   pcJudge, pcWriter, teamStarts, judgeStarts, writerRuns, fsVars>>

\* the research agent writes the field back, logs and returns (lines 34-36)
AppendWrite(a) ==
    /\ pcLoop = "investigation_team"
    /\ pc[a] = "writing"
    /\ LET out == append_write(state, log, frame[a].field,
                               frame[a].existing_state, frame[a].response)
       IN  /\ state' = out.state
           /\ log' = out.log
           /\ ret' = AppendRet(frame[a].field, frame[a].response, out.status)
    /\ pc' = [pc EXCEPT ![a] = "running"]
    /\ frame' = [frame EXCEPT ![a] = NoFrame]
    /\ UNCHANGED <<phase, pcLoop, times_looped, should_exit, pcJudge, pcWriter,
                   nCalls, teamStarts, judgeStarts, writerRuns, fsVars>>

\* the research agent gives its final answer
ResearcherDone(a) ==
    /\ pcLoop = "investigation_team"
    /\ pc[a] = "running"
    /\ pc' = [pc EXCEPT ![a] = "done"]
    /\ UNCHANGED <<state, log, ret, phase, pcLoop, times_looped, should_exit, frame,
                   pcJudge, pcWriter, nCalls, teamStarts, judgeStarts, writerRuns,
                   fsVars>>

\* investigation_team is complete: trial_loop runs its next sub-agent, the judge
JudgeStart ==
    /\ pcLoop = "investigation_team"
    /\ parallel_joined(pc)
    /\ pcLoop' = "judge"
    /\ pcJudge' = "running"
    /\ judgeStarts' = judgeStarts + 1
    /\ UNCHANGED <<state, log, ret, phase, times_looped, should_exit, pc, frame,
                   pcWriter, nCalls, teamStarts, writerRuns, fsVars>>

\* the judge asks for more research: feedback goes to CRITICAL_FEEDBACK
JudgeFeedback ==
    /\ pcLoop = "judge"
    /\ pcJudge = "running"
    /\ \E response \in Responses : CallAppend("CRITICAL_FEEDBACK", response)
    /\ UNCHANGED <<pipelineVars, fsVars>>

\* the judge calls exit_loop
JudgeExit ==
    /\ pcLoop = "judge"
    /\ pcJudge = "running"
    /\ ~should_exit
    /\ should_exit' = TRUE
    /\ UNCHANGED <<state, log, ret, phase, pcLoop, times_looped, pc, frame, pcJudge,
                   pcWriter, nCalls, teamStarts, judgeStarts, writerRuns, fsVars>>

\* the judge gives its final answer: trial_loop returns or starts the next iteration
JudgeDone ==
    /\ pcLoop = "judge"
    /\ pcJudge = "running"
    /\ IF loop_returns_on(should_exit)
       THEN LoopReturns /\ times_looped' = times_looped
       ELSE /\ times_looped' = times_looped + 1
            /\ IF times_looped + 1 < max_iterations
               THEN StartIteration /\ UNCHANGED <<phase, pcWriter, writerRuns>>
               ELSE LoopReturns
    /\ UNCHANGED <<state, log, ret, should_exit, nCalls, judgeStarts, fsVars>>

\* the verdict_writer calls write_file(directory, filename, content)
CallWrite(directory, filename, content, fault) ==
    LET out == write_file(dirs, files, directory, filename, content, fault) IN
    /\ pcWriter = "running"
    /\ nWrites < MaxWrites
    /\ nWrites' = nWrites + 1
    /\ dirs' = out.dirs
    /\ files' = out.files
    /\ log' = IF out.logged THEN [log EXCEPT !.written = @ + 1] ELSE log
    /\ ret' = WriteRet(directory, filename, content, fault, out)
    /\ UNCHANGED <<state, pipelineVars, nCalls>>

\* the verdict_writer saves its report as instructed
WriterWrite ==
    \E directory \in InstructedDirs, filename \in InstructedFiles,
       content \in Reports, fault \in Faults :
          CallWrite(directory, filename, content, fault)

\* the verdict_writer gives its final answer: the pipeline is over
WriterDone ==
    /\ pcWriter = "running"
    /\ pcWriter' = "done"
    /\ phase' = "done"
    /\ UNCHANGED <<state, log, ret, pcLoop, times_looped, should_exit, pc, frame,
                   pcJudge, nCalls, teamStarts, judgeStarts, writerRuns, fsVars>>

Next ==
    \/ GreeterStore
    \/ Transfer
    \/ \E a \in Researchers : AppendRead(a)
    \/ \E a \in Researchers : AppendWrite(a)
    \/ \E a \in Researchers : ResearcherDone(a)
    \/ JudgeStart
    \/ JudgeFeedback
    \/ JudgeExit
    \/ JudgeDone
    \/ WriterWrite
    \/ WriterDone

Spec == Init /\ [][Next]_vars

\* every agent run ends: model calls are retried a bounded number of times
FairSpec == Spec /\ WF_vars(Next)

-----------------------------------------------------------------------------
(* The tools on their own: a caller that makes one call after another *)

\* any field, any response
ToolAppend ==
    /\ \E field \in Fields, response \in Responses : CallAppend(field, response)
    /\ UNCHANGED <<pipelineVars, fsVars>>

AppendSpec == Init /\ [][ToolAppend]_vars

\* a session in which the loop has ended on the judge's signal and the
\* verdict_writer has just started
InitWriter ==
    /\ state = [f \in Fields |->
                  CASE f = "PROMPT" -> List(<<"r1">>)
                    [] f = "pos_data" -> List(<<"r1">>)
                    [] f = "neg_data" -> List(<<"r2">>)
                    [] OTHER -> Unset]
    /\ log = [added |-> [f \in Fields |-> IF f = "CRITICAL_FEEDBACK" THEN 0 ELSE 1],
              written |-> 0]
    /\ ret = AppendRet("neg_data", "r2", "success")
    /\ phase = "verdict_writer"
    /\ pcLoop = "returned"
    /\ times_looped = 0
    /\ should_exit = TRUE
    /\ pc = [a \in Researchers |-> "done"]
    /\ frame = [a \in Researchers |-> NoFrame]
    /\ pcJudge = "done"
    /\ pcWriter = "running"
    /\ dirs = {Root, Cwd}
    /\ files = [x \in {} |-> <<>>]
    /\ nCalls = 3
    /\ nWrites = 0
    /\ teamStarts = 1
    /\ judgeStarts = 1
    /\ writerRuns = 1

\* any directory, filename and content, any failure of the operating system
ToolWrite ==
    \E directory \in DirArgs, filename \in FileArgs,
       content \in Contents, fault \in Faults :
          CallWrite(directory, filename, content, fault)

NextFile == ToolWrite \/ WriterDone

FileSpec == InitWriter /\ [][NextFile]_vars

\* InitWriter is a state of the pipeline
InitWriterReached ==
    ~ ( /\ state["PROMPT"] = List(<<"r1">>) /\ state["pos_data"] = List(<<"r1">>)
        /\ state["neg_data"] = List(<<"r2">>) /\ state["CRITICAL_FEEDBACK"] = Unset
        /\ log.added = [f \in Fields |-> IF f = "CRITICAL_FEEDBACK" THEN 0 ELSE 1]
        /\ log.written = 0 /\ ret = AppendRet("neg_data", "r2", "success")
        /\ phase = "verdict_writer" /\ pcLoop = "returned" /\ times_looped = 0
        /\ should_exit /\ pc = [a \in Researchers |-> "done"]
        /\ frame = [a \in Researchers |-> NoFrame] /\ pcJudge = "done"
        /\ pcWriter = "running" /\ dirs = {Root, Cwd} /\ DOMAIN files = {}
        /\ nCalls = 3 /\ nWrites = 0 /\ teamStarts = 1 /\ judgeStarts = 1
        /\ writerRuns = 1 )

-----------------------------------------------------------------------------
(* Properties *)

Terminated == {"terminated_by_signal", "terminated_by_cap"}

Items(f) == IF state[f] = Unset THEN <<>> ELSE state[f].items

\* C1: an iteration of trial_loop is the investigation team and then the judge,
\* at most 3 iterations are started, and once the judge has called exit_loop no
\* run of the investigation team or of the judge is started.
C1_LoopOrder ==
    /\ [](/\ teamStarts <= 3
          /\ judgeStarts <= teamStarts
          /\ teamStarts <= judgeStarts + 1
          /\ (pcLoop = "investigation_team" => teamStarts = judgeStarts + 1)
          /\ (pcLoop \in {"judge", "returned"} => teamStarts = judgeStarts))
    /\ [][should_exit => teamStarts' = teamStarts /\ judgeStarts' = judgeStarts]_vars

\* C1 witness: the judge signalled exit in the second iteration and the loop returned
C1_Witness ==
    should_exit /\ pcLoop = "returned" /\ teamStarts = 2 /\ judgeStarts = 2

\* C2: trial_loop, once started, is iterating, terminated by signal or terminated
\* by cap; from iterating it always reaches a terminated state, by cap only after
\* 3 iterations without an exit signal, by signal only in the iteration whose judge
\* signalled; a terminated state is never left.
C2_BoundedLoop ==
    /\ [](pcLoop # "not_started" => LoopState \in {"iterating"} \cup Terminated)
    /\ (LoopState = "iterating") ~> (LoopState \in Terminated)
    /\ [][(LoopState \in Terminated) => (LoopState' = LoopState)]_vars
    /\ [](LoopState = "terminated_by_cap"
            => times_looped = 3 /\ judgeStarts = 3 /\ ~should_exit)
    /\ [](LoopState = "terminated_by_signal"
            => times_looped < 3 /\ judgeStarts = times_looped + 1)

\* C2 witness: three iterations ran, the judge never signalled, the loop ended by the cap
C2_Witness == LoopState = "terminated_by_cap" /\ teamStarts = 3 /\ phase = "done"

\* C3: the two research agents of an iteration are started together, and the judge
\* of the iteration runs only when both have completed.
C3_JoinBeforeJudge ==
    /\ pcLoop = "investigation_team" => \A a \in Researchers : pc[a] # "idle"
    /\ pcLoop = "judge" => \A a \in Researchers : pc[a] = "done"
    /\ pcJudge = "running" => pcLoop = "judge"

\* C3 witness: the judge runs after a round in which the two agents' calls
\* overlapped (two appends to pos_data were logged, one of them overwrote the other)
C3_Witness ==
    /\ pcJudge = "running"
    /\ log.added["pos_data"] = 2
    /\ Len(Items("pos_data")) = 1

\* C4: the verdict_writer, and with it every write_file call, runs only after
\* trial_loop has returned, and it is run exactly once after the loop has returned,
\* by signal or by cap.
C4_WriterAfterLoop ==
    /\ (pcWriter # "idle" \/ nWrites > 0 \/ writerRuns > 0) => pcLoop = "returned"
    /\ pcLoop = "returned" => writerRuns = 1
    /\ phase = "done" => pcWriter = "done" /\ pcLoop = "returned"

\* C4 witness: the loop ended on the judge's signal, the writer wrote its file and finished
C4_Witness ==
    /\ phase = "done" /\ should_exit /\ writerRuns = 1
    /\ ret.tool = "write_file" /\ ret.status = "success"

\* C5: a call of append_to_state(field, response) on an unset field leaves the
\* one-element sequence <<response>>; on a set field it leaves the previous sequence
\* followed by response; no other field changes.
C5_AppendAtEnd ==
    [][nCalls' = nCalls + 1 =>
         /\ ret'.tool = "append_to_state" /\ ret'.status = "success"
         /\ state'[ret'.field] =
               List(IF state[ret'.field] = Unset THEN <<ret'.response>>
                    ELSE state[ret'.field].items \o <<ret'.response>>)
         /\ \A g \in Fields \ {ret'.field} : state'[g] = state[g]]_vars

\* C5 witness: three calls on one field, the first response given again as the third
C5_Witness ==
    \E f \in Fields :
        /\ Len(Items(f)) = 3
        /\ Items(f)[1] = Items(f)[3]
        /\ Items(f)[1] # Items(f)[2]

\* C6 as stated: PROMPT and CRITICAL_FEEDBACK hold a string, pos_data and neg_data
\* hold sequences of strings.
C6_Original ==
    /\ \A f \in {"PROMPT", "CRITICAL_FEEDBACK"} :
          state[f] # Unset => state[f].kind = "str"
    /\ \A f \in {"pos_data", "neg_data"} :
          state[f] # Unset => state[f].kind = "list"

\* C6 amended: every key that is set, PROMPT and CRITICAL_FEEDBACK included, holds
\* a non-empty sequence of strings.
C6_AllSequences ==
    \A f \in Fields :
        state[f] # Unset =>
            /\ state[f].kind = "list"
            /\ Len(state[f].items) >= 1
            /\ \A i \in 1..Len(state[f].items) : state[f].items[i] \in Responses

\* C6 witness: the greeter has stored the topic and the judge has stored feedback
C6_Witness ==
    /\ state["PROMPT"] = List(<<"r1">>)
    /\ state["CRITICAL_FEEDBACK"] = List(<<"r2">>)

\* C7: a successful write_file call leaves at the target path exactly its content
\* argument, whatever the file held before, and leaves every other file as it was.
C7_Overwrites ==
    [][(nWrites' = nWrites + 1 /\ ret'.status = "success") =>
         /\ DOMAIN files' = DOMAIN files \cup {resolve(ret'.target)}
         /\ files'[resolve(ret'.target)] = ret'.content
         /\ \A x \in DOMAIN files \ {resolve(ret'.target)} : files'[x] = files[x]]_vars

\* C7 witness: two successful calls, and one file: the second wrote the path of the first
C7_Witness ==
    /\ log.written = 2
    /\ Cardinality(DOMAIN files) = 1
    /\ ret.status = "success"

\* the directory a directory argument names; the empty string names the working directory
DirNode(directory) == resolve(directory)

\* C8 as stated: whatever directory and filename are given (the empty directory and
\* a filename with separators included), after the call the directory that is to
\* contain the target exists and the file is written inside the given directory.
\* Stated of the first call on a filesystem that holds nothing yet, with no failure
\* of the operating system.
C8_DirectoryEnsured ==
    (ret.tool = "write_file" /\ nWrites = 1 /\ ret.fault = "none") =>
        /\ ret.status = "success"
        /\ parent(resolve(ret.target)) \in dirs
        /\ resolve(ret.target) \in DOMAIN files
        /\ IsPrefixOf(DirNode(ret.directory), resolve(ret.target))

\* C9: when the operating system fails directory creation, the open or the write,
\* or the target path names a directory, the call raises: it returns no success,
\* emits no log line and leaves the session state as it was.
C9_ErrorPropagates ==
    [][(nWrites' = nWrites + 1
          /\ (ret'.fault # "none" \/ resolve(ret'.target) \in dirs)) =>
         /\ ret'.status = "error"
         /\ log' = log
         /\ state' = state]_vars

\* C9 witness: after one successful call, a call whose write failed: one log line only
C9_Witness ==
    /\ ret.tool = "write_file" /\ ret.fault = "write" /\ ret.status = "error"
    /\ nWrites = 2
    /\ log.written = 1

\* C10 as stated: when the judge starts, every field holds every response whose
\* append was completed (one log line per completed append).
C10_NoLostAppend ==
    pcJudge = "running" => \A f \in Fields : Len(Items(f)) = log.added[f]

=============================================================================
